---------------------------- MODULE Spec2Model ----------------------------
(***************************************************************************)
(* Personal Finance Tracker (src/Finance.py): the debt page's minimum-     *)
(* payment payoff loop, the additional-payment handler with its three      *)
(* writes inside one sqlite3 transaction, and the savings forms that share *)
(* the singleton savings row with the payment handler.                     *)
(*                                                                         *)
(* Money and rates are Python floats in the source.  They are modelled as  *)
(* exact rationals <<numerator, denominator>> in lowest terms, so every    *)
(* product and quotient of the source is computed, not approximated;       *)
(* floating-point rounding is outside the model.                           *)
(***************************************************************************)
EXTENDS Integers, Sequences, FiniteSets, TLC

(***************************************************************************)
(* Bounds of the model.                                                    *)
(***************************************************************************)
MaxDebts == 2
MaxPayments == 2
MaxSaved == 50
MaxMonths == 6

(***************************************************************************)
(* Exact arithmetic standing for the float operators of the source.  A     *)
(* number is <<n, d>> with d > 0 and gcd(n, d) = 1.  The operators bind    *)
(* their operands through singleton sets so that each operand is evaluated *)
(* once, however deeply the expressions nest.                              *)
(***************************************************************************)
Abs(x) == IF x < 0 THEN -x ELSE x

RECURSIVE GCD(_, _)
GCD(a, b) == IF b = 0 THEN a ELSE GCD(b, a % b)

\* n/d in lowest terms, for d > 0
Rat(n, d) == CHOOSE r \in {<<n \div g, d \div g>> : g \in {GCD(Abs(n), d)}} : TRUE

\* float(n) of a number typed into a number_input
Num(n) == <<n, 1>>

Zero == Num(0)

\* x + y over the least common denominator
Sum(x, y) ==
    CHOOSE r \in {Rat(x[1] * (l \div x[2]) + y[1] * (l \div y[2]), l) :
                    l \in {(x[2] \div GCD(x[2], y[2])) * y[2]}} : TRUE

\* x * y, cancelling across before multiplying
Product(x, y) ==
    CHOOSE r \in {Rat((x[1] \div g[1]) * (y[1] \div g[2]),
                      (x[2] \div g[2]) * (y[2] \div g[1])) :
                    g \in {<<GCD(Abs(x[1]), y[2]), GCD(Abs(y[1]), x[2])>>}} : TRUE

RAdd(a, b) == CHOOSE r \in {Sum(x, y) : x \in {a}, y \in {b}} : TRUE

RSub(a, b) == CHOOSE r \in {Sum(x, <<-y[1], y[2]>>) : x \in {a}, y \in {b}} : TRUE

RMul(a, b) == CHOOSE r \in {Product(x, y) : x \in {a}, y \in {b}} : TRUE

\* a / k for a positive integer literal k of the source (100, 12)
RDivInt(a, k) == RMul(a, <<1, k>>)

RLess(a, b) == RSub(a, b)[1] < 0
RLeq(a, b) == RSub(a, b)[1] <= 0
RPos(a) == a[1] > 0

(***************************************************************************)
(* Inputs the forms can submit (every number_input has min_value = 0.0).   *)
(***************************************************************************)
\* <<creditor, amount, interest_rate, min_payment>> of an added debt:
\* interest of 20 a month with the calculator skipped (min_payment 0); a
\* second, smaller debt under the same creditor name, which two payments
\* overpay; a debt whose minimum payment equals its monthly interest; and
\* a small debt under that second name
DebtInputs ==
    {<<"A", 1000, 24, 0>>, <<"A", 30, 24, 20>>,
     <<"B", 1000, 24, 20>>, <<"B", 30, 24, 20>>}
Creditors == {t[1] : t \in DebtInputs}
Payments == {0, 15, 20}
SavingsAmounts == {50}
GoalAmounts == {0, 100}

\* inputs of the payoff loop: every relation of min_payment to the first
\* period's interest (below, equal, above), zero balance, zero rate, and
\* two debts with a realistic annual rate
SimAmounts == {0, 1, 2, 3}
SimRates == {0, 600, 1200}
SimMinPayments == {0, 1, 2, 3, 4}
SimInputs ==
    (SimAmounts \X SimRates \X SimMinPayments)
        \cup {<<500, 24, 200>>, <<1000, 24, 20>>}

(***************************************************************************)
(* State.                                                                  *)
(***************************************************************************)
VARIABLES
    debts,              \* table debts, in id order: row i has id i
    debt_payments,      \* table debt_payments, in insertion order
    savings,            \* the single row of table savings
    outcome,            \* what the last run of the payment handler reported:
                        \* "success" (st.success), "error" (st.error),
                        \* "warning" (st.warning), "exception" (an uncaught
                        \* sqlite3 error); "none" once another handler has rerun
                        \* the page
    applied,            \* history: per debt id, gross amount of the payments that succeeded
    deducted,           \* history: total taken from saved_amount by payments
    sim,                \* position of the payoff loop
    remaining_balance,
    months,
    total_interest

vars == <<debts, debt_payments, savings, outcome, applied, deducted,
          sim, remaining_balance, months, total_interest>>

store == <<debts, debt_payments, savings>>
simVars == <<sim, remaining_balance, months, total_interest>>
history == <<applied, deducted>>

(***************************************************************************)
(* initialize_db: empty tables and one savings row of zeros.               *)
(***************************************************************************)
InitialSavings ==
    [saved_amount |-> Zero, goal_amount |-> Zero, monthly_savings |-> Zero]

Init ==
    /\ debts = <<>>
    /\ debt_payments = <<>>
    /\ savings = InitialSavings
    /\ outcome = "none"
    /\ applied = <<>>
    /\ deducted = Zero
    /\ sim = "idle"
    /\ remaining_balance = Zero
    /\ months = 0
    /\ total_interest = Zero

(***************************************************************************)
(* Reset Database button: the file is removed and initialize_db runs.      *)
(***************************************************************************)
ResetDatabase ==
    /\ debts' = <<>>
    /\ debt_payments' = <<>>
    /\ savings' = InitialSavings
    /\ outcome' = "none"
    /\ applied' = <<>>
    /\ deducted' = Zero
    /\ UNCHANGED simVars

(***************************************************************************)
(* manage_savings: the three forms.                                        *)
(***************************************************************************)
AddToSavings(savings_amount) ==
    /\ RLeq(RAdd(savings.saved_amount, Num(savings_amount)), Num(MaxSaved))
    /\ savings' = [savings EXCEPT
                     !.saved_amount = RAdd(@, Num(savings_amount))]
    /\ outcome' = "none"
    /\ UNCHANGED <<debts, debt_payments, history, simVars>>

UpdateGoal(new_goal) ==
    /\ savings' = [savings EXCEPT !.goal_amount = Num(new_goal)]
    /\ outcome' = "none"
    /\ UNCHANGED <<debts, debt_payments, history, simVars>>

UpdateMonthlySavings(new_monthly_savings) ==
    /\ RLeq(RAdd(savings.saved_amount, Num(new_monthly_savings)), Num(MaxSaved))
    /\ RLeq(RAdd(savings.monthly_savings, Num(new_monthly_savings)), Num(MaxSaved))
    /\ savings' = [savings EXCEPT
                     !.monthly_savings = RAdd(@, Num(new_monthly_savings)),
                     !.saved_amount = RAdd(@, Num(new_monthly_savings))]
    /\ outcome' = "none"
    /\ UNCHANGED <<debts, debt_payments, history, simVars>>

(***************************************************************************)
(* manage_debts: the Add New Debt form.  Nothing keeps creditor unique.    *)
(***************************************************************************)
AddDebt(creditor, amount, interest_rate, min_payment) ==
    /\ Len(debts) < MaxDebts
    /\ debts' = Append(debts,
                  [id |-> Len(debts) + 1,
                   creditor |-> creditor,
                   amount_owed |-> Num(amount),
                   interest_rate |-> Num(interest_rate),
                   min_payment |-> Num(min_payment)])
    /\ applied' = Append(applied, Zero)
    /\ outcome' = "none"
    /\ UNCHANGED <<debt_payments, savings, deducted, simVars>>

(***************************************************************************)
(* manage_debts: the repayment calculator and the additional payment.      *)
(***************************************************************************)
\* debt_options = debts_df["creditor"].tolist()
DebtOptions(ds) == {ds[i].creditor : i \in DOMAIN ds}

\* debts_df[debts_df["creditor"] == selected_debt].iloc[0]: the first row
\* carrying the selected name
SelectedDebtDetails(ds, selected_debt) ==
    ds[CHOOSE i \in DOMAIN ds :
          /\ ds[i].creditor = selected_debt
          /\ \A j \in DOMAIN ds : j < i => ds[j].creditor # selected_debt]

\* monthly_interest_rate = (interest_rate / 100) / 12
MonthlyInterestRate(interest_rate) == RDivInt(RDivInt(interest_rate, 100), 12)

\* interest = amount_owed * monthly_interest_rate
Interest(amount_owed, interest_rate) ==
    RMul(amount_owed, MonthlyInterestRate(interest_rate))

\* mutant: the interest is not taken off the payment
PrincipalPayment_Gross(additional_payment, interest) == additional_payment

\* principal_payment = additional_payment - interest
PrincipalPayment(additional_payment, interest) ==
    RSub(additional_payment, interest)

\* mutant: the comparison is written the other way round
PaymentRejected_SignSlip(principal_payment) == RLess(Zero, principal_payment)

\* if principal_payment < 0: st.error(...)
PaymentRejected(principal_payment) == RLess(principal_payment, Zero)

\* new_amount_owed = amount_owed - principal_payment
NewAmountOwed(amount_owed, principal_payment) ==
    RSub(amount_owed, principal_payment)

\* UPDATE debts SET amount_owed = ? WHERE creditor = ?
UpdateDebts(ds, new_amount_owed, selected_debt) ==
    [i \in DOMAIN ds |->
        IF ds[i].creditor = selected_debt
        THEN [ds[i] EXCEPT !.amount_owed = new_amount_owed]
        ELSE ds[i]]

\* INSERT INTO debt_payments (debt_id, payment_amount, payment_date)
\* (payment_date, today's date, is not modelled)
InsertPayment(log, debt_id, additional_payment) ==
    Append(log, [debt_id |-> debt_id, payment_amount |-> additional_payment])

\* UPDATE savings SET saved_amount = saved_amount - ?
DeductSavings(sv, additional_payment) ==
    [sv EXCEPT !.saved_amount = RSub(@, additional_payment)]

\* The while loop of the calculator runs, in the same script run, before the
\* payment widgets are reached.  It is skipped when min_payment <= 0 and has
\* nothing to do when amount_owed <= 0; otherwise the balance shrinks exactly
\* when min_payment exceeds the first period's interest (PayoffLoopStep
\* below is the loop itself; HaltsAgrees relates the two).
PayoffLoopHalts(d) ==
    \/ ~RPos(d.min_payment)
    \/ ~RPos(d.amount_owed)
    \/ RLess(Interest(d.amount_owed, d.interest_rate), d.min_payment)

\* mutant: the log row stores the principal part, not the gross payment
Executed_LogsPrincipal(db, k, selected_debt, debt_id, new_amount_owed, additional_payment) ==
    [debts |->
        IF k >= 1 THEN UpdateDebts(db.debts, new_amount_owed, selected_debt)
        ELSE db.debts,
     debt_payments |->
        IF k >= 2
        THEN InsertPayment(db.debt_payments, debt_id,
                RSub(SelectedDebtDetails(db.debts, selected_debt).amount_owed,
                     new_amount_owed))
        ELSE db.debt_payments,
     savings |->
        IF k >= 3 THEN DeductSavings(db.savings, additional_payment)
        ELSE db.savings]

\* The three execute calls in source order, inside the one transaction that
\* sqlite3 opens before the first of them: what the handler's connection
\* sees after the first k of them.
Executed(db, k, selected_debt, debt_id, new_amount_owed, additional_payment) ==
    [debts |->
        IF k >= 1 THEN UpdateDebts(db.debts, new_amount_owed, selected_debt)
        ELSE db.debts,
     debt_payments |->
        IF k >= 2 THEN InsertPayment(db.debt_payments, debt_id, additional_payment)
        ELSE db.debt_payments,
     savings |->
        IF k >= 3 THEN DeductSavings(db.savings, additional_payment)
        ELSE db.savings]

\* Where a sqlite3 error can be raised, and how many of the execute calls
\* have gone through by then.
Faults == {"none", "update_debts", "insert_payment", "update_savings", "commit"}

ExecutedBefore(fault) ==
    CASE fault = "update_debts" -> 0
      [] fault = "insert_payment" -> 1
      [] fault = "update_savings" -> 2
      [] OTHER -> 3

\* conn.commit(): the connection's view becomes the committed database
Committed(persisted, work) == work

\* mutant: every execute is committed on its own (autocommit)
RolledBack_Autocommit(persisted, work) == work

\* an execute or the commit raises: the handler has no except clause, the
\* exception leaves manage_debts before conn.commit(), and the transaction
\* of the dropped connection is rolled back
RolledBack(persisted, work) == persisted

\* What the accepted branch (lines 389-411) leaves behind when the sqlite3
\* error `fault` is raised ("none": no error).
Persist(d, selected_debt, additional_payment, new_amount_owed, fault) ==
    LET db == [debts |-> debts, debt_payments |-> debt_payments,
               savings |-> savings]
        work == Executed(db, ExecutedBefore(fault), selected_debt, d.id,
                         new_amount_owed, additional_payment)
        after == IF fault = "none" THEN Committed(db, work)
                 ELSE RolledBack(db, work)
    IN  /\ debts' = after.debts
        /\ debt_payments' = after.debt_payments
        /\ savings' = after.savings
        /\ IF fault = "none"
           THEN /\ outcome' = "success"
                /\ applied' = [applied EXCEPT
                                 ![d.id] = RAdd(@, additional_payment)]
                /\ deducted' = RAdd(deducted,
                                    RSub(savings.saved_amount,
                                         after.savings.saved_amount))
           ELSE /\ outcome' = "exception"
                /\ UNCHANGED history

\* "Apply Additional Payment" is clicked: the script reruns, reads debts_df,
\* finishes the calculator for the selected debt and runs lines 375-413.
ApplyAdditionalPayment(selected_debt, payment) ==
    /\ debts # <<>>
    /\ selected_debt \in DebtOptions(debts)
    /\ LET d == SelectedDebtDetails(debts, selected_debt)
           additional_payment == Num(payment)
           interest == Interest(d.amount_owed, d.interest_rate)
           principal_payment == PrincipalPayment(additional_payment, interest)
           new_amount_owed == NewAmountOwed(d.amount_owed, principal_payment)
       IN  /\ PayoffLoopHalts(d)
           /\ IF ~RPos(additional_payment)
              THEN /\ outcome' = "warning"
                   /\ UNCHANGED <<store, history>>
              ELSE IF PaymentRejected(principal_payment)
              THEN /\ outcome' = "error"
                   /\ UNCHANGED <<store, history>>
              ELSE /\ Len(debt_payments) < MaxPayments
                   /\ \E fault \in Faults :
                         Persist(d, selected_debt, additional_payment,
                                 new_amount_owed, fault)
    /\ UNCHANGED simVars

(***************************************************************************)
(* The minimum-payment payoff calculator of manage_debts (lines 352-370),  *)
(* one action per loop iteration.  It reads the selected debt and writes   *)
(* nothing to the database.                                                *)
(***************************************************************************)
\* mutant: while remaining_balance >= 0
LoopCondition_Inclusive(balance) == ~RLess(balance, Zero)

\* while remaining_balance > 0
LoopCondition(balance) == RPos(balance)

\* principal = min_payment - interest
Principal(min_payment, interest) == RSub(min_payment, interest)

\* the page is rendered with a debt selected; if min_payment > 0 the loop is
\* entered with its three locals initialised, else the warning is shown
RenderCalculator ==
    /\ sim = "idle"
    /\ debts # <<>>
    /\ LET d == SelectedDebtDetails(debts, debts[1].creditor)
       IN  IF RPos(d.min_payment)
           THEN /\ sim' = "loop"
                /\ remaining_balance' = d.amount_owed
                /\ months' = 0
                /\ total_interest' = Zero
           ELSE /\ sim' = "warning"
                /\ UNCHANGED <<remaining_balance, months, total_interest>>
    /\ UNCHANGED <<store, outcome, history>>

\* one iteration of the loop body
PayoffLoopStep ==
    /\ sim = "loop"
    /\ LoopCondition(remaining_balance)
    /\ months < MaxMonths
    /\ LET d == SelectedDebtDetails(debts, debts[1].creditor)
           interest == RMul(remaining_balance,
                            MonthlyInterestRate(d.interest_rate))
           principal == Principal(d.min_payment, interest)
       IN  /\ remaining_balance' = RSub(remaining_balance, principal)
           /\ total_interest' = RAdd(total_interest, interest)
           /\ months' = months + 1
    /\ UNCHANGED <<sim, store, outcome, history>>

\* the loop condition fails: months and total_interest are written out
PayoffLoopExit ==
    /\ sim = "loop"
    /\ ~LoopCondition(remaining_balance)
    /\ sim' = "done"
    /\ UNCHANGED <<remaining_balance, months, total_interest,
                   store, outcome, history>>

\* the store after one Add New Debt submission on a fresh database
SimInit ==
    /\ \E t \in SimInputs :
          debts = <<[id |-> 1, creditor |-> "A", amount_owed |-> Num(t[1]),
                     interest_rate |-> Num(t[2]), min_payment |-> Num(t[3])]>>
    /\ debt_payments = <<>>
    /\ savings = InitialSavings
    /\ outcome = "none"
    /\ applied = <<Zero>>
    /\ deducted = Zero
    /\ sim = "idle"
    /\ remaining_balance = Zero
    /\ months = 0
    /\ total_interest = Zero

SimNext ==
    \/ RenderCalculator
    \/ PayoffLoopStep
    \/ PayoffLoopExit

SimSpec == SimInit /\ [][SimNext]_vars

\* the script thread runs the loop without interruption: an enabled
\* iteration is eventually executed
FairSimSpec == SimSpec /\ WF_vars(SimNext)

Next ==
    \/ ResetDatabase
    \/ \E a \in SavingsAmounts : AddToSavings(a)
    \/ \E g \in GoalAmounts : UpdateGoal(g)
    \/ \E m \in SavingsAmounts : UpdateMonthlySavings(m)
    \/ \E t \in DebtInputs : AddDebt(t[1], t[2], t[3], t[4])
    \/ \E c \in Creditors, p \in Payments : ApplyAdditionalPayment(c, p)

Spec == Init /\ [][Next]_vars


(***************************************************************************)
(* The relation between the loop and PayoffLoopHalts, checked under        *)
(* SimSpec: the calculator finishes only for debts PayoffLoopHalts         *)
(* accepts, and for the others the loop condition holds on every           *)
(* iteration because the balance never falls below where it started.       *)
(***************************************************************************)
HaltsAgrees ==
    /\ sim \in {"done", "warning"} => PayoffLoopHalts(debts[1])
    /\ (sim = "loop" /\ ~PayoffLoopHalts(debts[1])) =>
          /\ LoopCondition(remaining_balance)
          /\ RLeq(debts[1].amount_owed, remaining_balance)

(***************************************************************************)
(* Vocabulary of the properties.  B x r is computed here from the stored   *)
(* row as amount_owed * interest_rate / 1200, apart from the handler's own *)
(* Interest.                                                               *)
(***************************************************************************)
AccruedInterest(d) ==
    RMul(d.amount_owed, Rat(d.interest_rate[1], d.interest_rate[2] * 1200))

\* B - (P - B x r)
BalanceAfter(d, P) == RSub(d.amount_owed, RSub(P, AccruedInterest(d)))

RECURSIVE LoggedFor(_, _)
LoggedFor(log, debt_id) ==
    IF log = <<>> THEN Zero
    ELSE LET rest == LoggedFor(Tail(log), debt_id)
         IN  IF Head(log).debt_id = debt_id
             THEN RAdd(Head(log).payment_amount, rest)
             ELSE rest

RECURSIVE Total(_)
Total(seq) == IF seq = <<>> THEN Zero ELSE RAdd(Head(seq), Total(Tail(seq)))

LoggedTotal(log) == Total([i \in DOMAIN log |-> log[i].payment_amount])

\* C1 as stated: a payment P > 0 with P <= B x r, the boundary P = B x r
\* included, ends in the error report and leaves debts, debt_payments and
\* savings as they were.
C1_RejectedUpToInterest ==
    [][\A c \in Creditors, p \in Payments :
          (/\ p > 0
           /\ outcome' # "none"
           /\ c \in DebtOptions(debts)
           /\ RLeq(Num(p), AccruedInterest(SelectedDebtDetails(debts, c)))
           /\ ApplyAdditionalPayment(c, p))
          => (outcome' = "error" /\ store' = store)]_vars

\* C1 amended: a payment P > 0 with P < B x r ends in the error report and
\* leaves debts, debt_payments and savings as they were.
C1_RejectedBelowInterest ==
    [][\A c \in Creditors, p \in Payments :
          (/\ p > 0
           /\ outcome' # "none"
           /\ c \in DebtOptions(debts)
           /\ RLess(Num(p), AccruedInterest(SelectedDebtDetails(debts, c)))
           /\ ApplyAdditionalPayment(c, p))
          => (outcome' = "error" /\ store' = store)]_vars

\* the claim's scenario: a payment (of 15) was just rejected on a store
\* holding 1000 owed at 24%, untouched
C1_Witness ==
    /\ outcome = "error"
    /\ PaymentRejected(PrincipalPayment(Num(15), Interest(Num(1000), Num(24))))
    /\ debt_payments = <<>>
    /\ savings.saved_amount = Zero
    /\ debts # <<>>
    /\ debts[1].amount_owed = Num(1000)

\* C2: the calculator, started on a debt with 0 < min_payment <= B x r,
\* eventually reports NonTerminating instead of iterating on.
C2_NonTerminatingReported ==
    (/\ sim = "idle"
     /\ RPos(debts[1].min_payment)
     /\ RLeq(debts[1].min_payment, AccruedInterest(debts[1])))
        ~> (sim = "NonTerminating")

\* C3: the calculator, started on a debt with amount_owed >= 0,
\* interest_rate >= 0 and min_payment > B x r, eventually leaves the loop
\* with remaining_balance <= 0, and then total_interest >= 0, months = 0 if
\* amount_owed = 0 and months >= 1 otherwise.
C3_Inputs ==
    /\ ~RLess(debts[1].amount_owed, Zero)
    /\ ~RLess(debts[1].interest_rate, Zero)
    /\ RLess(AccruedInterest(debts[1]), debts[1].min_payment)

C3_PayoffTerminates ==
    /\ (sim = "idle" /\ C3_Inputs) ~> (sim = "done")
    /\ [](sim = "done" /\ C3_Inputs =>
            /\ ~RPos(remaining_balance)
            /\ ~RLess(total_interest, Zero)
            /\ (months = 0 <=> debts[1].amount_owed = Zero)
            /\ (debts[1].amount_owed # Zero => months >= 1))

\* 500 owed at 24% with a minimum payment of 200 is paid off in 3 months
\* with 18.524 of interest
C3_Witness ==
    /\ sim = "done"
    /\ C3_Inputs
    /\ debts[1].amount_owed = Num(500)
    /\ months = 3
    /\ total_interest = Rat(18524, 1000)

\* C4: a payment P > 0 with P > B x r that meets no database error sets the
\* selected debt's amount_owed to B - (P - B x r), appends exactly one
\* debt_payments entry, for the selected debt's id and the gross P, and
\* lowers saved_amount by exactly P.
C4_PaymentApplied ==
    [][\A c \in Creditors, p \in Payments :
          (/\ p > 0
           /\ outcome' \notin {"none", "exception"}
           /\ c \in DebtOptions(debts)
           /\ RLess(AccruedInterest(SelectedDebtDetails(debts, c)), Num(p))
           /\ ApplyAdditionalPayment(c, p))
          => LET d == SelectedDebtDetails(debts, c)
             IN  /\ outcome' = "success"
                 /\ debts'[d.id].amount_owed = BalanceAfter(d, Num(p))
                 /\ debt_payments' =
                       Append(debt_payments,
                              [debt_id |-> d.id, payment_amount |-> Num(p)])
                 /\ savings'.saved_amount =
                       RSub(savings.saved_amount, Num(p))]_vars

\* 30 owed at 24% (interest 0.6) after a payment of 15: 15.6 owed, one log
\* entry of 15 for that debt, savings down by 15; and the claim's example,
\* 500 owed at 24% and a payment of 50, gives 460
C4_Witness ==
    /\ outcome = "success"
    /\ NewAmountOwed(Num(500),
                     PrincipalPayment(Num(50), Interest(Num(500), Num(24))))
          = Num(460)
    /\ Len(debt_payments) = 1
    /\ debt_payments[1].payment_amount = Num(15)
    /\ debts[debt_payments[1].debt_id].amount_owed = Rat(156, 10)
    /\ savings.saved_amount = Num(-15)

\* C5: whatever database error the handler meets, the committed debts,
\* debt_payments and savings are afterwards either all as before or all
\* three written; after an error they are all as before.
C5_Atomic ==
    [][/\ outcome' = "exception" => store' = store
       /\ \A c \in Creditors, p \in Payments :
             (/\ outcome' # "none"
              /\ store' # store
              /\ c \in DebtOptions(debts)
              /\ ApplyAdditionalPayment(c, p))
             => LET d == SelectedDebtDetails(debts, c)
                    db == [debts |-> debts, debt_payments |-> debt_payments,
                           savings |-> savings]
                    all == Executed(db, 3, c, d.id,
                              NewAmountOwed(d.amount_owed,
                                 PrincipalPayment(Num(p),
                                    Interest(d.amount_owed, d.interest_rate))),
                              Num(p))
                IN  store' = <<all.debts, all.debt_payments, all.savings>>]_vars

\* a database error was just raised during a payment on the 30 debt
C5_Witness ==
    /\ outcome = "exception"
    /\ debts # <<>>
    /\ debts[1].amount_owed = Num(30)
    /\ debt_payments = <<>>

\* C6: no payment raises the amount_owed of any debt row.
C6_NonIncreasing ==
    [][\A c \in Creditors, p \in Payments :
          (outcome' # "none" /\ ApplyAdditionalPayment(c, p))
          => \A i \in DOMAIN debts :
                RLeq(debts'[i].amount_owed, debts[i].amount_owed)]_vars

\* C7: saved_amount is never negative.
C7_SavedNonNegative == ~RLess(savings.saved_amount, Zero)

\* C8: for every debt the logged payment amounts add up to the gross
\* amounts of the payments that succeeded on it, and the whole log adds up
\* to what payments have taken from saved_amount.
C8_LogReconciles ==
    /\ \A i \in DOMAIN debts : LoggedFor(debt_payments, i) = applied[i]
    /\ LoggedTotal(debt_payments) = deducted

\* two payments have succeeded, on different debts
C8_Witness ==
    /\ Len(debt_payments) = 2
    /\ debt_payments[1].debt_id # debt_payments[2].debt_id
    /\ deducted = Num(35)

\* C9: no debt's amount_owed is ever negative.
C9_OwedNonNegative ==
    \A i \in DOMAIN debts : ~RLess(debts[i].amount_owed, Zero)

\* C10: a successful payment changes no debt row other than the one whose
\* id it logs.
C10_OtherDebtsUnchanged ==
    [][\A c \in Creditors, p \in Payments :
          (outcome' = "success" /\ ApplyAdditionalPayment(c, p))
          => \A i \in DOMAIN debts :
                i # SelectedDebtDetails(debts, c).id => debts'[i] = debts[i]]_vars

=============================================================================
